---- MODULE Spec2Model ----
(***************************************************************************)
(* Build environments of readthedocs/doc_builder/environments.py:          *)
(* BaseEnvironment.run_command_class, the BuildEnvironment scope           *)
(* (__enter__/__exit__, handle_exception, update_build) and the            *)
(* DockerBuildEnvironment provisioning and teardown protocol, run against  *)
(* a container engine and a tracking API whose calls may fail.             *)
(***************************************************************************)
EXTENDS Integers, Sequences, FiniteSets, TLC

\* ------------------------------------------------------------------ bounds
\* commands one environment may run on the host
MaxCommands == 2
\* commands one environment may run in its container
MaxContainerCommands == 1
\* lines of output of a container command
MaxLines == 17
\* bytes of raw output handed to sanitize_output
MaxOutput == 5
\* length ceilings (upload limit minus the reserved margin) tried
MaxCeiling == 3

\* ------------------------------------------------------- program constants
DOCKER_TIMEOUT_EXIT_CODE == 42
DOCKER_OOM_EXIT_CODE == 137
\* DockerBuildCommand.run: the tail of the output searched for 'Killed'
OOM_TAIL_LINES == 15
BUILD_STATE_FINISHED == "finished"

\* the environment instances; instance 2 is only used by concurrent builds
Envs == {1, 2}

\* ------------------------------------------------------------- exceptions
Exc(cls, msg) == [cls |-> cls, msg |-> msg]
None == Exc("None", "")

\* BuildEnvironment.WARNING_EXCEPTIONS
WARNING_EXCEPTIONS ==
    {"VersionLockedError", "ProjectBuildsSkippedError", "YAMLParseError",
     "BuildTimeoutError", "MkDocsYAMLParseError", "RepositoryError",
     "ProjectConfigurationError"}

\* class hierarchy of doc_builder/exceptions.py
IsBuildEnvironmentWarning(cls) == cls = "BuildEnvironmentWarning"

IsBuildEnvironmentError(cls) ==
    cls \in {"BuildEnvironmentError", "BuildEnvironmentCreationFailed"}
            \cup WARNING_EXCEPTIONS

IsBuildEnvironmentException(cls) ==
    IsBuildEnvironmentError(cls) \/ IsBuildEnvironmentWarning(cls)

\* BuildEnvironmentException.status_code
status_code(x) == IF x.cls = "VersionLockedError" THEN 423 ELSE 1

\* BuildEnvironmentError.GENERIC_WITH_BUILD_ID, formatted with the build id
GENERIC_WITH_BUILD_ID == "generic: see build id"

\* exceptions the scope body raises by itself (not through a command)
BodyExceptions ==
    {Exc("VersionLockedError", "version locked"),
     Exc("Exception", "internal a"),
     Exc("Exception", "internal b")}

\* --------------------------------------------------------------- commands
\* exit codes a host process reports
ExitCodes == {0, 1}

NoCmd == [exit_code |-> <<>>, reported |-> <<>>, record |-> FALSE,
          warn_only |-> FALSE, record_as_success |-> FALSE]

\* BuildCommandResultMixin.successful / failed
cmd_successful(c) == c.exit_code # <<>> /\ c.exit_code[1] = 0
cmd_failed(c) == c.exit_code # <<>> /\ c.exit_code[1] # 0

RECURSIVE MaxExit(_)
MaxExit(cmds) ==
    IF Len(cmds) = 1 THEN cmds[1].exit_code[1]
    ELSE LET m == MaxExit(Tail(cmds))
         IN IF cmds[1].exit_code[1] >= m THEN cmds[1].exit_code[1] ELSE m

\* ------------------------------------------------------------------ state
VARIABLES
    kind,               \* class of each environment instance ("none": unused)
    record,             \* BuildEnvironment.record
    update_on_success,  \* BuildEnvironment.update_on_success
    environment,        \* BaseEnvironment._environment: the variables it names
    pc,                 \* position of the caller in the scope
    cur,                \* the command being run by run_command_class
    commands,           \* BaseEnvironment.commands
    failure,            \* BuildEnvironment.failure
    build,              \* the build record (BuildEnvironment.build)
    exc,                \* exception handed to __exit__ (None: normal exit)
    entering,           \* __exit__ was called from inside __enter__
    ret,                \* what __exit__ returned
    raised,             \* exception that reached the caller of the scope
    client,             \* DockerBuildEnvironment.client is not None
    container,          \* engine: the container with the derived name
    ncreated,           \* engine: containers created so far (identities)
    puts,               \* tracking API: build records PUT, per environment
    posts,              \* tracking API: exit codes of commands POSTed
    ops,                \* engine calls made on containers, per environment
    runs,               \* commands executed (build_cmd.run() returned)
    first_fail,         \* index of the first executed command exiting non-zero
    policy_default,     \* every run call so far used the default options
    called,             \* state passed to the latest update_build call
    finalized,          \* BuildEnvironment.__exit__ ran to its end
    state_seen,         \* what container_state() returned to __exit__
    call,               \* latest call of a function that uses no environment
                        \* state: its arguments and its result
    script              \* the scope body the caller wrote, when two
                        \* environments are given the same one

vars == <<kind, record, update_on_success, environment, pc, cur, commands, failure, build,
          exc, entering, ret, raised, client, container, ncreated, puts,
          posts, ops, runs, first_fail, policy_default, called, finalized,
          state_seen, call, script>>

envVars == <<kind, record, update_on_success, environment, script>>

engineVars == <<container, ncreated>>

BuildKinds == {"LocalBuildEnvironment", "DockerBuildEnvironment"}

\* ------------------------------------------- BuildEnvironment properties
\* BuildEnvironment.done
done(b) == b.state = BUILD_STATE_FINISHED

\* BuildEnvironment.successful
successful(b, f, cmds) ==
    done(b) /\ f = None /\ \A i \in 1..Len(cmds) : cmd_successful(cmds[i])

\* failed, with "and" where the property has "or"
failed_wrong(b, f, cmds) ==
    done(b) /\ (f # None /\ \E i \in 1..Len(cmds) : cmd_failed(cmds[i]))
\* BuildEnvironment.failed
failed(b, f, cmds) ==
    done(b) /\ (f # None \/ \E i \in 1..Len(cmds) : cmd_failed(cmds[i]))

\* handle_exception writing the failure only while it is empty
handle_exception_first_wins(f, x) ==
    IF f # None THEN f
    ELSE IF x = None THEN f
    ELSE IF IsBuildEnvironmentWarning(x.cls) THEN f
    ELSE x
\* handle_exception storing the command-failure signal as well
handle_exception_wrong(f, x) == IF x = None THEN f ELSE x
\* handle_exception without the assignment of its else branch
handle_exception_drops(f, x) ==
    IF x = None THEN f
    ELSE IF IsBuildEnvironmentWarning(x.cls) THEN f
    ELSE IF x.cls \in WARNING_EXCEPTIONS THEN x
    ELSE f
\* BuildEnvironment.handle_exception: the failure it leaves
handle_exception(f, x) ==
    IF x = None THEN f
    ELSE IF IsBuildEnvironmentWarning(x.cls) THEN f
    ELSE IF x.cls \in WARNING_EXCEPTIONS THEN x
    ELSE x

\* BuildEnvironment.handle_exception: its return value
handle_exception_ret(x) == IF x = None THEN "None" ELSE "True"

\* the update decision without its first case
should_put_wrong(b, f, cmds, uos) ==
    (done(b) /\ ~successful(b, f, cmds)) \/ uos
\* the update decision ignoring update_on_success
should_put_always(b, f, cmds, uos) == TRUE
\* BuildEnvironment.update_build: "We are selective about when we update"
should_put(b, f, cmds, uos) ==
    \/ ~done(b)
    \/ (done(b) /\ ~successful(b, f, cmds))
    \/ uos

\* BuildEnvironment.update_build: the exit_code it writes once done
build_exit_code(b, f, cmds) ==
    IF f # None /\ IsBuildEnvironmentException(f.cls) THEN <<status_code(f)>>
    ELSE IF cmds # <<>> THEN <<MaxExit(cmds)>>
    ELSE b.exit_code

\* update_build surfacing every failure as it is
surfaced_failure_wrong(f) == f
\* BuildEnvironment.update_build: generic error for unclassified failures
surfaced_failure(f) ==
    IF f # None /\ ~IsBuildEnvironmentException(f.cls)
    THEN Exc("BuildEnvironmentError", GENERIC_WITH_BUILD_ID)
    ELSE f

\* update_build without "if not self.record: return None"
update_build_wrong(e, f, state) ==
    LET b1 == [build[e] EXCEPT !.state = state]
        b2 == IF done(b1)
              THEN [b1 EXCEPT
                      !.success = successful(b1, f, commands[e]),
                      !.exit_code = build_exit_code(b1, f, commands[e])]
              ELSE b1
        f2 == surfaced_failure(f)
        b3 == [b2 EXCEPT !.error = IF f # None THEN f2.msg ELSE "",
                         !.length = <<"elapsed">>]
    IN [build |-> b3, failure |-> f2,
        put |-> should_put(b3, f2, commands[e], update_on_success[e])]
\* BuildEnvironment.update_build(state), with f the failure stored when it is
\* called: the record, the failure and whether the record is PUT
update_build(e, f, state) ==
    IF ~record[e]
    THEN [build |-> build[e], failure |-> f, put |-> FALSE]
    ELSE LET b1 == [build[e] EXCEPT !.state = state]
             b2 == IF done(b1)
                   THEN [b1 EXCEPT
                           !.success = successful(b1, f, commands[e]),
                           !.exit_code = build_exit_code(b1, f, commands[e])]
                   ELSE b1
             f2 == surfaced_failure(f)
             \* start_time is always set: the elapsed time is written
             b3 == [b2 EXCEPT !.error = IF f # None THEN f2.msg ELSE "",
                              !.length = <<"elapsed">>]
         IN [build |-> b3, failure |-> f2,
             put |-> should_put(b3, f2, commands[e], update_on_success[e])]

\* ------------------------------------------------------------------- init
InitBuild == [state |-> "triggered", success |-> TRUE, exit_code |-> <<>>,
              error |-> "", length |-> <<>>]

NoContainer == [status |-> "absent", ExitCode |-> 0, OOMKilled |-> FALSE,
                Error |-> "", id |-> 0, owner |-> 0]

\* states a container is left in when it stops by itself: the sleep elapsed
\* (timeout sentinel), the kernel killed it, the engine reports an error
DeathStates ==
    {[ExitCode |-> DOCKER_TIMEOUT_EXIT_CODE, OOMKilled |-> FALSE, Error |-> ""],
     [ExitCode |-> DOCKER_TIMEOUT_EXIT_CODE, OOMKilled |-> TRUE, Error |-> "engine error"],
     [ExitCode |-> DOCKER_OOM_EXIT_CODE, OOMKilled |-> TRUE, Error |-> "engine error"],
     [ExitCode |-> 1, OOMKilled |-> FALSE, Error |-> "engine error"],
     [ExitCode |-> DOCKER_OOM_EXIT_CODE, OOMKilled |-> FALSE, Error |-> ""]}

\* what the engine may hold under the derived name before the scope is
\* entered: nothing, a stale stopped container, a container still running
InitialContainers ==
    {NoContainer,
     [status |-> "exited", ExitCode |-> DOCKER_TIMEOUT_EXIT_CODE,
      OOMKilled |-> FALSE, Error |-> "", id |-> 1, owner |-> 0],
     [status |-> "running", ExitCode |-> 0, OOMKilled |-> FALSE, Error |-> "",
      id |-> 1, owner |-> 0]}

\* __exit__ has not looked at the container yet
NotSeen == [status |-> "unseen", ExitCode |-> 0, OOMKilled |-> FALSE,
            Error |-> "", id |-> 0, owner |-> 0]

\* container_state() returned None
StateNone == [NotSeen EXCEPT !.status = "None"]

\* no such call was made yet
NoCall == [fn |-> "none"]

\* no body is prescribed: the caller may run any command with any option
Free == [free |-> TRUE, cmds |-> <<>>, report |-> FALSE, end |-> None]

InitCommon ==
    /\ pc = [e \in Envs |-> "new"]
    /\ cur = [e \in Envs |-> NoCmd]
    /\ commands = [e \in Envs |-> <<>>]
    /\ failure = [e \in Envs |-> None]
    /\ build = [e \in Envs |-> InitBuild]
    /\ exc = [e \in Envs |-> None]
    /\ entering = [e \in Envs |-> FALSE]
    /\ ret = [e \in Envs |-> "unset"]
    /\ raised = [e \in Envs |-> None]
    /\ client = [e \in Envs |-> FALSE]
    /\ puts = [e \in Envs |-> <<>>]
    /\ posts = [e \in Envs |-> <<>>]
    /\ ops = [e \in Envs |-> <<>>]
    /\ runs = [e \in Envs |-> 0]
    /\ first_fail = [e \in Envs |-> 0]
    /\ policy_default = [e \in Envs |-> TRUE]
    /\ called = [e \in Envs |-> "none"]
    /\ finalized = [e \in Envs |-> FALSE]
    /\ state_seen = [e \in Envs |-> NotSeen]
    /\ call = NoCall

\* the variable names a caller may give an environment to share
SharedEnvironments == {{}, {"PATH"}}

\* one environment of any class; a plain LocalEnvironment has no record flag
Init ==
    /\ InitCommon
    /\ script = Free
    /\ \E k \in {"LocalEnvironment"} \cup BuildKinds, r, u \in BOOLEAN :
         /\ kind = [e \in Envs |-> IF e = 1 THEN k ELSE "none"]
         /\ record = [e \in Envs |-> e = 1 /\ r /\ k \in BuildKinds]
         /\ update_on_success = [e \in Envs |-> e = 1 /\ u /\ k \in BuildKinds]
    /\ \E names \in SharedEnvironments :
         environment = [e \in Envs |-> IF e = 1 THEN names ELSE {}]
    /\ \E c \in InitialContainers :
         /\ container = IF kind[1] = "DockerBuildEnvironment" THEN c ELSE NoContainer
         /\ ncreated = container.id

\* ------------------------------------------------------- container engine
\* how a call to the engine ends: it answers, or it raises docker's APIError,
\* or requests' ConnectionError or ReadTimeout
Outcomes == {"ok", "DockerAPIError", "ConnectionError", "ReadTimeout"}

\* errors that are not docker APIErrors
NetworkErrors == {"ConnectionError", "ReadTimeout"}

Running(c) == c.status = "running"

\* the running container stops by itself
ContainerDies ==
    /\ Running(container)
    /\ \E d \in DeathStates :
         container' = [container EXCEPT !.status = "exited",
                                        !.ExitCode = d.ExitCode,
                                        !.OOMKilled = d.OOMKilled,
                                        !.Error = d.Error]
    /\ UNCHANGED <<envVars, call, pc, cur, commands, failure, build, exc, entering,
                   ret, raised, client, ncreated, puts, posts, ops, runs,
                   first_fail, policy_default, called, finalized, state_seen>>

\* engine: kill answers only for a running container
KillAnswer(c) == IF c.status = "absent" THEN "NotFound"
                 ELSE IF Running(c) THEN "ok" ELSE "DockerAPIError"

\* engine: remove answers only for a stopped container
RemoveAnswer(c) == IF c.status = "absent" THEN "NotFound"
                   ELSE IF Running(c) THEN "DockerAPIError" ELSE "ok"

\* what a call ends with: the engine's answer, unless the call itself failed
Answer(out, ans) == IF out = "ok" THEN ans ELSE out

Op(op, phase) == [op |-> op, id |-> container.id, phase |-> phase]

\* engine: a name can be given to one container only
CreateAnswer(c) == IF c.status = "absent" THEN "ok" ELSE "DockerAPIError"

\* engine: start answers only for a container that was created
StartAnswer(c) == IF c.status = "absent" THEN "NotFound"
                  ELSE IF c.status = "created" THEN "ok" ELSE "DockerAPIError"

Killed(c) == [c EXCEPT !.status = "exited", !.ExitCode = DOCKER_OOM_EXIT_CODE]

\* ------------------------------------------------ BuildEnvironment.__enter__
\* BuildEnvironment.__enter__ (a plain LocalEnvironment has no scope: its
\* caller just starts running commands)
Enter(e) ==
    /\ kind[e] \in {"LocalEnvironment", "LocalBuildEnvironment"}
    /\ pc[e] = "new"
    /\ pc' = [pc EXCEPT ![e] = "open"]
    /\ UNCHANGED <<envVars, call, cur, commands, failure, build, exc, entering, ret,
                   raised, client, engineVars, puts, posts, ops, runs,
                   first_fail, policy_default, called, finalized, state_seen>>

\* where an exception raised in the scope body goes: to __exit__ of a build
\* environment, to the caller of a plain LocalEnvironment
BodyRaises(e, x) ==
    IF kind[e] = "LocalEnvironment"
    THEN /\ pc' = [pc EXCEPT ![e] = "raised"]
         /\ raised' = [raised EXCEPT ![e] = x]
         /\ exc' = exc
    ELSE /\ pc' = [pc EXCEPT ![e] =
                     IF kind[e] = "DockerBuildEnvironment" THEN "x_state"
                     ELSE "finalize"]
         /\ exc' = [exc EXCEPT ![e] = x]
         /\ raised' = raised

\* ------------------------------------------- BaseEnvironment.run_command_class
\* how build_cmd.run() can end: on the host the process exits or Popen raises
\* OSError; in a container the exec session ends or the engine call fails
ExecOutcomes(e) ==
    IF kind[e] = "DockerBuildEnvironment" THEN Outcomes ELSE {"ok", "OSError"}

\* the exec session of a container never reporting the exit code
run_exit_code_wrong(e, out, code) ==
    IF out = "ok" /\ kind[e] # "DockerBuildEnvironment" THEN code ELSE -1
\* BuildCommand.run / DockerBuildCommand.run: the exit code they store
\* (an exec session cannot be created in a container that is not running)
run_exit_code(e, out, code) ==
    IF out = "ok" /\ (kind[e] # "DockerBuildEnvironment" \/ Running(container))
    THEN code ELSE -1

\* the record option left as passed when record_as_success is set
effective_record_wrong(e, recOpt, ras) ==
    IF recOpt = "default" THEN record[e] ELSE recOpt = "true"
\* run_command_class: the options in effect
effective_record(e, recOpt, ras) ==
    IF ras THEN TRUE
    ELSE IF recOpt = "default" THEN record[e] ELSE recOpt = "true"

effective_warn_only(e, recOpt, warnOpt, ras) ==
    IF ras THEN TRUE
    ELSE IF ~(IF recOpt = "default" THEN record[e] ELSE recOpt = "true")
    THEN TRUE ELSE warnOpt

\* the check that forgets the shared environment
refused_wrong(envOpt, names) ==
    IF envOpt
    THEN Exc("BuildEnvironmentError",
             "environment can't be passed in via commands.")
    ELSE None
\* run_command_class and BuildCommand.__init__: the call is refused when it
\* passes an environment option, the command when the shared environment
\* names PATH
refused(envOpt, names) ==
    IF envOpt
    THEN Exc("BuildEnvironmentError",
             "environment can't be passed in via commands.")
    ELSE IF "PATH" \in names
    THEN Exc("BuildEnvironmentError", "'PATH' can't be set. Use bin_path")
    ELSE None

\* the arguments of one run call and the way its process ends
RunCall(recOpt, warnOpt, ras, envOpt, out, code) ==
    [recOpt |-> recOpt, warnOpt |-> warnOpt, ras |-> ras, envOpt |-> envOpt,
     out |-> out, code |-> code]

\* the body has reported the step it starts, if it is written to do so
Reported(e) == script.report => called[e] # "none"

\* the body's next statement is this run call
Runs(e, c) ==
    IF script.free THEN TRUE
    ELSE /\ runs[e] < Len(script.cmds)
         /\ Reported(e)
         /\ script.cmds[runs[e] + 1] = c

\* the API takes every POST of a prescribed body
Saves(e, saved) == script.free \/ saved

\* the body's statements are over and it ends with x (None: normally)
Ends(e, x) ==
    IF script.free THEN TRUE
    ELSE /\ runs[e] = Len(script.cmds)
         /\ Reported(e)
         /\ script.end = x

\* first half: the option defaults, the environment check, cls(cmd, **kwargs),
\* then build_cmd.run()
Execute(e) ==
    /\ kind[e] # "none"
    /\ pc[e] = "open" /\ cur[e] = NoCmd
    /\ runs[e] < (IF kind[e] = "DockerBuildEnvironment"
                  THEN MaxContainerCommands ELSE MaxCommands)
    /\ \E recOpt \in {"default", "true", "false"}, warnOpt, ras, envOpt \in BOOLEAN,
          out \in ExecOutcomes(e), code \in ExitCodes :
         /\ out # "ok" => code = 0
         /\ Runs(e, RunCall(recOpt, warnOpt, ras, envOpt, out, code))
         /\ policy_default' = [policy_default EXCEPT ![e] =
                                 @ /\ recOpt = "default" /\ ~warnOpt /\ ~ras]
         /\ IF refused(envOpt, environment[e]) # None
            THEN \* raised before the command is run
                 /\ BodyRaises(e, refused(envOpt, environment[e]))
                 /\ UNCHANGED <<cur, runs, first_fail>>
            ELSE IF out \in NetworkErrors
            THEN \* DockerBuildCommand.run only catches DockerAPIError
                 /\ BodyRaises(e, Exc(out, "exec"))
                 /\ UNCHANGED <<cur, runs, first_fail>>
            ELSE LET x == run_exit_code(e, out, code)
                 IN /\ cur' = [cur EXCEPT ![e] =
                                 [exit_code |-> <<x>>, reported |-> <<x>>,
                                  record |-> effective_record(e, recOpt, ras),
                                  warn_only |->
                                    effective_warn_only(e, recOpt, warnOpt, ras),
                                  record_as_success |-> ras]]
                    /\ runs' = [runs EXCEPT ![e] = @ + 1]
                    /\ first_fail' = [first_fail EXCEPT ![e] =
                                        IF @ = 0 /\ x # 0 THEN runs[e] + 1 ELSE @]
                    /\ UNCHANGED <<pc, exc, raised>>
    /\ UNCHANGED <<envVars, call, commands, failure, build, entering, ret, client,
                   engineVars, puts, posts, ops, called, finalized, state_seen>>

\* save leaving the exit code alone
saved_exit_code_wrong(c) == c.exit_code
\* BuildCommand.save: the exit code that is serialized
saved_exit_code(c) == IF c.record_as_success THEN <<0>> ELSE c.exit_code

\* the append done for every command
listed_wrong(cmds, rec, obj) == Append(cmds, obj)
\* run_command_class: "if record: ... self.commands.append(build_cmd)"
listed(cmds, rec, obj) == IF rec THEN Append(cmds, obj) ELSE cmds

\* second half: record_command, append, and the failure policy
Finish(e) ==
    /\ pc[e] = "open" /\ cur[e] # NoCmd
    /\ LET c == cur[e]
           c1 == IF c.record /\ kind[e] \in BuildKinds
                 THEN [c EXCEPT !.exit_code = saved_exit_code(c)] ELSE c
           \* the command object, without the locals of run_command_class
           obj == [exit_code |-> c1.exit_code,
                   record_as_success |-> c1.record_as_success]
       IN \E saved \in BOOLEAN :
          /\ Saves(e, saved)
          /\ cur' = [cur EXCEPT ![e] = NoCmd]
          /\ IF c.record /\ kind[e] \in BuildKinds /\ ~saved
             THEN \* api_v2.command.post raised: nothing appended
                  /\ BodyRaises(e, Exc("HttpClientError", "post failed"))
                  /\ UNCHANGED <<commands, posts>>
             ELSE /\ saved
                  /\ posts' = [posts EXCEPT ![e] =
                                 IF c.record /\ kind[e] \in BuildKinds
                                 THEN Append(@, c1.exit_code[1]) ELSE @]
                  /\ commands' = [commands EXCEPT ![e] = listed(@, c.record, obj)]
                  /\ IF cmd_failed(c1)
                     THEN IF c.warn_only
                          THEN IF kind[e] = "LocalEnvironment"
                               \* log.warning reads self.version, which a
                               \* BaseEnvironment never sets
                               THEN BodyRaises(e, Exc("AttributeError", "version"))
                               ELSE UNCHANGED <<pc, exc, raised>>
                          ELSE BodyRaises(e, Exc("BuildEnvironmentWarning",
                                                 "command failed"))
                     ELSE UNCHANGED <<pc, exc, raised>>
    /\ UNCHANGED <<envVars, call, failure, build, entering, ret, client, engineVars,
                   puts, ops, runs, first_fail, policy_default, called,
                   finalized, state_seen>>

\* ------------------------------------------------------------- scope body
\* the body raises an exception of its own
RaiseInBody(e) ==
    /\ kind[e] \in BuildKinds
    /\ pc[e] = "open" /\ cur[e] = NoCmd
    /\ \E x \in BodyExceptions : Ends(e, x) /\ BodyRaises(e, x)
    /\ UNCHANGED <<envVars, call, cur, commands, failure, build, entering, ret,
                   client, engineVars, puts, posts, ops, runs, first_fail,
                   policy_default, called, finalized, state_seen>>

\* the body ends normally
LeaveBody(e) ==
    /\ kind[e] \in BuildKinds
    /\ pc[e] = "open" /\ cur[e] = NoCmd
    /\ Ends(e, None)
    /\ pc' = [pc EXCEPT ![e] =
                IF kind[e] = "DockerBuildEnvironment" THEN "x_state"
                ELSE "finalize"]
    /\ UNCHANGED <<envVars, call, cur, commands, failure, build, exc, entering, ret,
                   raised, client, engineVars, puts, posts, ops, runs,
                   first_fail, policy_default, called, finalized, state_seen>>

\* the body reports the build step it starts: update_build(state) with a
\* state that is not the terminal one
CallUpdateBuild(e) ==
    /\ kind[e] \in BuildKinds
    /\ pc[e] = "open" /\ cur[e] = NoCmd
    /\ called[e] = "none"
    /\ IF script.free THEN TRUE ELSE script.report /\ runs[e] = 0
    /\ LET u == update_build(e, failure[e], "building")
       IN /\ build' = [build EXCEPT ![e] = u.build]
          /\ failure' = [failure EXCEPT ![e] = u.failure]
          /\ puts' = [puts EXCEPT ![e] = IF u.put THEN Append(@, u.build) ELSE @]
    /\ called' = [called EXCEPT ![e] = "building"]
    /\ UNCHANGED <<envVars, call, pc, cur, commands, exc, entering, ret, raised,
                   client, engineVars, posts, ops, runs, first_fail,
                   policy_default, finalized, state_seen>>

\* ------------------------------------------------- BuildEnvironment.__exit__
\* called by the with statement, by DockerBuildEnvironment.__exit__, and
\* through it by a failed DockerBuildEnvironment.__enter__
\* first statement: ret = self.handle_exception(exc_type, exc_value, tb)
ExitHandle(e) ==
    /\ pc[e] = "finalize"
    /\ failure' = [failure EXCEPT ![e] = handle_exception(@, exc[e])]
    /\ pc' = [pc EXCEPT ![e] = "update"]
    /\ UNCHANGED <<envVars, call, cur, commands, build, exc, entering, ret, raised,
                   client, engineVars, puts, posts, ops, runs, first_fail,
                   policy_default, called, finalized, state_seen>>

\* then self.update_build(BUILD_STATE_FINISHED) and "return ret"; a failed
\* __enter__ goes on to re-raise what it caught
ExitUpdate(e) ==
    /\ pc[e] = "update"
    /\ LET u == update_build(e, failure[e], BUILD_STATE_FINISHED)
       IN /\ failure' = [failure EXCEPT ![e] = u.failure]
          /\ build' = [build EXCEPT ![e] = u.build]
          /\ puts' = [puts EXCEPT ![e] = IF u.put THEN Append(@, u.build) ELSE @]
    /\ called' = [called EXCEPT ![e] = BUILD_STATE_FINISHED]
    /\ finalized' = [finalized EXCEPT ![e] = TRUE]
    /\ ret' = [ret EXCEPT ![e] = handle_exception_ret(exc[e])]
    /\ IF entering[e]
       THEN /\ pc' = [pc EXCEPT ![e] = "enter_raised"]
            /\ raised' = [raised EXCEPT ![e] = exc[e]]
       ELSE /\ pc' = [pc EXCEPT ![e] = "closed"]
            /\ raised' = raised
    /\ UNCHANGED <<envVars, call, cur, commands, exc, entering, client, engineVars,
                   posts, ops, runs, first_fail, policy_default, state_seen>>

\* --------------------------------------------------- DockerBuildEnvironment
\* 'Build exited due to unknown error: {0}'.format(state.get('Error'))
unknown_error(err) == "Build exited due to unknown error: " \o err

\* the reconciliation without the test of Running
update_build_from_container_state_any(f, c) ==
    IF c # StateNone
    THEN IF c.ExitCode = DOCKER_TIMEOUT_EXIT_CODE
         THEN Exc("BuildEnvironmentError", "Build exited due to time out")
         ELSE IF c.OOMKilled
         THEN Exc("BuildEnvironmentError",
                  "Build exited due to excessive memory consumption")
         ELSE IF c.Error # ""
         THEN Exc("BuildEnvironmentError", unknown_error(c.Error))
         ELSE f
    ELSE f
\* the reconciliation testing the OOM flag before the exit code
update_build_from_container_state_wrong(f, c) ==
    IF c # StateNone /\ ~Running(c)
    THEN IF c.OOMKilled
         THEN Exc("BuildEnvironmentError",
                  "Build exited due to excessive memory consumption")
         ELSE IF c.ExitCode = DOCKER_TIMEOUT_EXIT_CODE
         THEN Exc("BuildEnvironmentError", "Build exited due to time out")
         ELSE IF c.Error # ""
         THEN Exc("BuildEnvironmentError", unknown_error(c.Error))
         ELSE f
    ELSE f
\* DockerBuildEnvironment.update_build_from_container_state: the failure it
\* leaves, given what container_state() returned
update_build_from_container_state(f, c) ==
    IF c # StateNone /\ ~Running(c)
    THEN IF c.ExitCode = DOCKER_TIMEOUT_EXIT_CODE
         THEN Exc("BuildEnvironmentError", "Build exited due to time out")
         ELSE IF c.OOMKilled
         THEN Exc("BuildEnvironmentError",
                  "Build exited due to excessive memory consumption")
         ELSE IF c.Error # ""
         THEN Exc("BuildEnvironmentError", unknown_error(c.Error))
         ELSE f
    ELSE f

\* DockerBuildEnvironment.__enter__ calls self.__exit__(*sys.exc_info())
EnterFails(e, x) ==
    /\ pc' = [pc EXCEPT ![e] = "x_state"]
    /\ exc' = [exc EXCEPT ![e] = x]
    /\ entering' = [entering EXCEPT ![e] = TRUE]
    /\ raised' = raised

\* an exception leaves __enter__ without passing through __exit__
EnterPropagates(e, x) ==
    /\ pc' = [pc EXCEPT ![e] = "enter_raised"]
    /\ raised' = [raised EXCEPT ![e] = x]
    /\ UNCHANGED <<exc, entering>>

EnterGoes(e, to) ==
    /\ pc' = [pc EXCEPT ![e] = to]
    /\ UNCHANGED <<exc, entering, raised>>

RunningError == Exc("BuildEnvironmentError",
                    "A build environment is currently running for this version")

\* the sanity check without ConnectionError in its except clause
enter_swallows_wrong(ans) == ans \in {"ok", "NotFound", "DockerAPIError"}
\* __enter__: the errors its sanity check swallows
\* (except (DockerAPIError, ConnectionError): pass)
enter_swallows(ans) ==
    ans \in {"ok", "NotFound", "DockerAPIError", "ConnectionError"}

\* __enter__, first step: container_state() and the check for a collision
EnterState(e) ==
    /\ kind[e] = "DockerBuildEnvironment"
    /\ pc[e] = "new"
    /\ \E connected \in BOOLEAN, out \in Outcomes :
         IF ~connected
         THEN \* get_client: DockerException becomes a BuildEnvironmentError
              /\ EnterFails(e, Exc("BuildEnvironmentError", GENERIC_WITH_BUILD_ID))
              /\ UNCHANGED <<client, failure, build>>
         ELSE /\ client' = [client EXCEPT ![e] = TRUE]
              /\ IF ~enter_swallows(out)
                 THEN /\ EnterPropagates(e, Exc(out, "inspect"))
                      /\ UNCHANGED <<failure, build>>
                 ELSE IF out = "ok" /\ Running(container)
                 THEN /\ failure' = [failure EXCEPT ![e] = RunningError]
                      /\ build' = [build EXCEPT ![e].state = BUILD_STATE_FINISHED]
                      /\ EnterFails(e, RunningError)
                 ELSE IF out = "ok" /\ container.status # "absent"
                 THEN /\ EnterGoes(e, "e_stale")
                      /\ UNCHANGED <<failure, build>>
                 ELSE \* state is None, or the ConnectionError is swallowed
                      /\ EnterGoes(e, "mkdir")
                      /\ UNCHANGED <<failure, build>>
    /\ UNCHANGED <<envVars, call, cur, commands, ret, engineVars, puts, posts, ops,
                   runs, first_fail, policy_default, called, finalized, state_seen>>

\* __enter__: client.remove_container on the stale container
EnterRemoveStale(e) ==
    /\ pc[e] = "e_stale"
    /\ ops' = [ops EXCEPT ![e] = Append(@, Op("remove", "enter"))]
    /\ \E out \in Outcomes :
         LET ans == Answer(out, RemoveAnswer(container))
         IN IF enter_swallows(ans)
            THEN /\ EnterGoes(e, "mkdir")
                 /\ container' = IF ans = "ok" THEN NoContainer ELSE container
            ELSE /\ EnterPropagates(e, Exc(ans, "remove"))
                 /\ UNCHANGED container
    /\ UNCHANGED <<envVars, call, cur, commands, failure, build, ret, client,
                   ncreated, puts, posts, runs, first_fail, policy_default,
                   called, finalized, state_seen>>

\* __enter__: os.makedirs(self.project.doc_path), outside both try blocks
EnterMakedirs(e) ==
    /\ pc[e] = "mkdir"
    /\ \E ok \in BOOLEAN :
         IF ok THEN EnterGoes(e, "create")
         ELSE EnterPropagates(e, Exc("OSError", "makedirs"))
    /\ UNCHANGED <<envVars, call, cur, commands, failure, build, ret, client,
                   engineVars, puts, posts, ops, runs, first_fail,
                   policy_default, called, finalized, state_seen>>

\* DockerBuildEnvironment.create_container: what it raises for an engine error
create_container_error(out) ==
    IF out = "ConnectionError"
    THEN Exc("BuildEnvironmentError", GENERIC_WITH_BUILD_ID)
    ELSE IF out \in {"DockerAPIError", "NotFound"}
    THEN Exc("BuildEnvironmentCreationFailed", "Build environment creation failed")
    ELSE Exc(out, "create")

\* __enter__: create_container, the client.create_container call
EnterCreate(e) ==
    /\ pc[e] = "create"
    /\ \E out \in Outcomes :
         LET ans == Answer(out, CreateAnswer(container))
         IN IF ans = "ok"
            THEN /\ container' = [NoContainer EXCEPT !.status = "created",
                                                     !.id = ncreated + 1,
                                                     !.owner = e]
                 /\ ncreated' = ncreated + 1
                 /\ EnterGoes(e, "start")
            ELSE /\ EnterFails(e, create_container_error(ans))
                 /\ UNCHANGED engineVars
    /\ ops' = [ops EXCEPT ![e] = Append(@, Op("create", "enter"))]
    /\ UNCHANGED <<envVars, call, cur, commands, failure, build, ret, client, puts,
                   posts, runs, first_fail, policy_default, called, finalized,
                   state_seen>>

\* __enter__: create_container, the client.start call
EnterStart(e) ==
    /\ pc[e] = "start"
    /\ ops' = [ops EXCEPT ![e] = Append(@, Op("start", "enter"))]
    /\ \E out \in Outcomes :
         LET ans == Answer(out, StartAnswer(container))
         IN IF ans = "ok"
            THEN /\ container' = [container EXCEPT !.status = "running"]
                 /\ EnterGoes(e, "open")
            ELSE /\ EnterFails(e, create_container_error(ans))
                 /\ UNCHANGED container
    /\ UNCHANGED <<envVars, call, cur, commands, failure, build, ret, client,
                   ncreated, puts, posts, runs, first_fail, policy_default,
                   called, finalized, state_seen>>

\* an exception leaves DockerBuildEnvironment.__exit__; inside __enter__ it
\* replaces the exception that __enter__ was about to re-raise
ExitPropagates(e, x) ==
    /\ raised' = [raised EXCEPT ![e] = x]
    /\ ret' = [ret EXCEPT ![e] = "raised"]
    /\ pc' = [pc EXCEPT ![e] = IF entering[e] THEN "enter_raised"
                               ELSE "exit_raised"]

\* DockerBuildEnvironment.container_state: the State of the container, or
\* None for a DockerAPIError (NotFound is one); other errors pass through
container_state(out, c) ==
    IF out = "ok" /\ c.status # "absent" THEN c ELSE StateNone

\* get_client: what it raises when the engine cannot be reached
get_client_error == Exc("BuildEnvironmentError", GENERIC_WITH_BUILD_ID)

\* the except branch taking the teardown error in every case
handed_over_wrong(x, err) == err
\* __exit__, "except BuildEnvironmentError": the exception handed to
\* BuildEnvironment.__exit__ when the teardown raised err and the scope was
\* left with x (if not all([exc_type, exc_value, tb]): ... = sys.exc_info())
handed_over(x, err) == IF x = None THEN err ELSE x

\* __exit__, first step: update_build_from_container_state()
ExitState(e) ==
    /\ pc[e] = "x_state"
    /\ \E connected \in BOOLEAN, out \in Outcomes :
         IF ~client[e] /\ ~connected
         THEN \* get_client raises BuildEnvironmentError: kill and remove are
              \* skipped, and the error is adopted if there was no exception
              /\ exc' = [exc EXCEPT ![e] = handed_over(@, get_client_error)]
              /\ pc' = [pc EXCEPT ![e] = "finalize"]
              /\ UNCHANGED <<client, failure, raised, ret, state_seen>>
         ELSE /\ client' = [client EXCEPT ![e] = TRUE]
              /\ exc' = exc
              /\ IF out \in NetworkErrors
                 THEN /\ ExitPropagates(e, Exc(out, "inspect"))
                      /\ UNCHANGED <<failure, state_seen>>
                 ELSE LET st == container_state(out, container)
                      IN /\ state_seen' = [state_seen EXCEPT ![e] = st]
                         /\ failure' = [failure EXCEPT ![e] =
                                update_build_from_container_state(@, st)]
                         /\ pc' = [pc EXCEPT ![e] = "x_kill"]
                         /\ UNCHANGED <<raised, ret>>
    /\ UNCHANGED <<envVars, call, cur, commands, build, entering, engineVars, puts,
                   posts, ops, runs, first_fail, policy_default, called,
                   finalized>>

\* the try around client.kill without "except DockerNotFoundError"
exit_kill_swallows_wrong(ans) == ans \in {"ok", "DockerAPIError"}
\* __exit__: what the try around client.kill lets through
\* (except DockerNotFoundError, except DockerAPIError)
exit_kill_swallows(ans) == ans \in {"ok", "NotFound", "DockerAPIError"}

\* __exit__: what the try around client.remove_container lets through
\* (except DockerNotFoundError, except (DockerAPIError, ConnectionError,
\* ReadTimeout))
exit_remove_swallows(ans) ==
    ans \in {"ok", "NotFound", "DockerAPIError", "ConnectionError", "ReadTimeout"}

\* __exit__: client.kill
ExitKill(e) ==
    /\ pc[e] = "x_kill"
    /\ ops' = [ops EXCEPT ![e] = Append(@, Op("kill", "exit"))]
    /\ \E out \in Outcomes :
         LET ans == Answer(out, KillAnswer(container))
         IN IF exit_kill_swallows(ans)
            THEN /\ container' = IF ans = "ok" THEN Killed(container)
                                 ELSE container
                 /\ pc' = [pc EXCEPT ![e] = "x_remove"]
                 /\ UNCHANGED <<raised, ret>>
            ELSE /\ ExitPropagates(e, Exc(ans, "kill"))
                 /\ UNCHANGED container
    /\ UNCHANGED <<envVars, call, cur, commands, failure, build, exc, entering,
                   client, ncreated, puts, posts, runs, first_fail,
                   policy_default, called, finalized, state_seen>>

\* __exit__: client.remove_container, then self.container = None
ExitRemove(e) ==
    /\ pc[e] = "x_remove"
    /\ ops' = [ops EXCEPT ![e] = Append(@, Op("remove", "exit"))]
    /\ \E out \in Outcomes :
         LET ans == Answer(out, RemoveAnswer(container))
         IN IF exit_remove_swallows(ans)
            THEN /\ container' = IF ans = "ok" THEN NoContainer ELSE container
                 /\ pc' = [pc EXCEPT ![e] = "finalize"]
                 /\ UNCHANGED <<raised, ret>>
            ELSE /\ ExitPropagates(e, Exc(ans, "remove"))
                 /\ UNCHANGED container
    /\ UNCHANGED <<envVars, call, cur, commands, failure, build, exc, entering,
                   client, ncreated, puts, posts, runs, first_fail,
                   policy_default, called, finalized, state_seen>>

Next ==
    \/ ContainerDies
    \/ \E e \in Envs :
        \/ Enter(e)
        \/ Execute(e)
        \/ Finish(e)
        \/ RaiseInBody(e)
        \/ LeaveBody(e)
        \/ CallUpdateBuild(e)
        \/ ExitHandle(e)
        \/ ExitUpdate(e)
        \/ EnterState(e)
        \/ EnterRemoveStale(e)
        \/ EnterMakedirs(e)
        \/ EnterCreate(e)
        \/ EnterStart(e)
        \/ ExitState(e)
        \/ ExitKill(e)
        \/ ExitRemove(e)

Spec == Init /\ [][Next]_vars

\* ------------------------------------------- DockerBuildEnvironment.__init__
\* the class attribute container_image = DOCKER_IMAGE
DOCKER_IMAGE == "readthedocs/build:default"

\* project.container_image and config.docker_image: "" when not set
ImageOverrides(name) == {"", name}

\* __init__: the image it leaves in self.container_image; three assignments
\* in a row, each under its own condition
container_image(testing, config_image, project_image) ==
    LET flagged == IF testing THEN "readthedocs/build:testing" ELSE DOCKER_IMAGE
        configured == IF config_image # "" THEN config_image ELSE flagged
    IN IF project_image # "" THEN project_image ELSE configured

\* DockerBuildEnvironment(...) is constructed
NewDockerBuildEnvironment ==
    /\ call = NoCall
    /\ \E testing \in BOOLEAN, config_image \in ImageOverrides("config"),
          project_image \in ImageOverrides("project") :
         call' = [fn |-> "__init__", testing |-> testing,
                  config_image |-> config_image,
                  project_image |-> project_image,
                  image |-> container_image(testing, config_image,
                                            project_image)]
    /\ UNCHANGED <<envVars, pc, cur, commands, failure, build, exc, entering,
                   ret, raised, client, engineVars, puts, posts, ops, runs,
                   first_fail, policy_default, called, finalized, state_seen>>

\* ------------------------------------------------- DockerBuildCommand.run
\* exit codes exec_inspect reports
ExecExitCodes == {0, 1, 2, DOCKER_OOM_EXIT_CODE}

\* outputs of n lines with at most one line that holds the word given
OutputLines ==
    {[i \in 1..n |-> IF i = at THEN word ELSE "line"] :
        n \in 0..MaxLines, at \in 0..MaxLines, word \in {"Killed", "killed"}}

\* self.output.splitlines()[-k:]
LastLines(lines, k) ==
    IF Len(lines) <= k THEN lines
    ELSE SubSeq(lines, Len(lines) - k + 1, Len(lines))

OOM_NOTICE == "Command killed due to excessive memory consumption"

\* the search done in the whole output
killed_in_output_wrong(lines) ==
    \E i \in 1..Len(lines) : lines[i] = "Killed"
\* run: killed_in_output
killed_in_output(lines) ==
    LET tail == LastLines(lines, OOM_TAIL_LINES)
    IN \E i \in 1..Len(tail) : tail[i] = "Killed"

\* run: the output it leaves for an exec session that ended with this exit
\* code and this output; the notice starts with two line ends
docker_output(code, lines) ==
    IF code = DOCKER_OOM_EXIT_CODE \/ (code = 1 /\ killed_in_output(lines))
    THEN lines \o <<"", OOM_NOTICE>>
    ELSE lines

\* DockerBuildCommand.run, from exec_start on, for an exec session that ends
DockerRun ==
    /\ call = NoCall
    /\ \E code \in ExecExitCodes, lines \in OutputLines :
         call' = [fn |-> "DockerBuildCommand.run", reported |-> code,
                  lines |-> lines, output |-> docker_output(code, lines),
                  exit_code |-> code]
    /\ UNCHANGED <<envVars, pc, cur, commands, failure, build, exc, entering,
                   ret, raised, client, engineVars, puts, posts, ops, runs,
                   first_fail, policy_default, called, finalized, state_seen>>

\* ------------------------------------------- BuildCommand.sanitize_output
\* "threshold": space left for the rest of the request data
threshold == 512 * 1024

\* settings.DATA_UPLOAD_MAX_MEMORY_SIZE: limits a little above the margin
UploadLimits == {threshold + k : k \in 1..MaxCeiling}

\* bytes of raw output: a letter, a NUL, a byte that is not valid UTF-8
Bytes == {"a", "NUL", "xFF"}

RawOutputs == UNION {[1..n -> Bytes] : n \in 0..MaxOutput}

\* output.decode('utf-8', 'replace'): one character per byte here, the
\* invalid byte becoming the replacement character
decode(output) ==
    [i \in 1..Len(output) |-> IF output[i] = "xFF" THEN "U+FFFD" ELSE output[i]]

RECURSIVE without_nul(_)
\* sanitized.replace('\x00', '')
without_nul(text) ==
    IF text = <<>> THEN <<>>
    ELSE IF Head(text) = "NUL" THEN without_nul(Tail(text))
    ELSE <<Head(text)>> \o without_nul(Tail(text))

\* sanitized[-n:] for n > 0
last_chars(text, n) ==
    IF Len(text) <= n THEN text ELSE SubSeq(text, Len(text) - n + 1, Len(text))

\* the ceiling taken to be the upload limit itself
allowed_length_wrong(limit) == limit
\* sanitize_output: allowed_length
allowed_length(limit) == limit - threshold

\* sanitize_output(output) under this upload limit: the budget the notice
\* names (none: no notice) and the text that follows
sanitize_output(output, limit) ==
    LET sanitized == without_nul(decode(output))
    IN IF Len(output) > allowed_length(limit)
       THEN [notice |-> <<allowed_length(limit)>>,
             text |-> last_chars(sanitized, allowed_length(limit))]
       ELSE [notice |-> <<>>, text |-> sanitized]

\* sanitize_output is called on the bytes a command wrote
Sanitize ==
    /\ call = NoCall
    /\ \E output \in RawOutputs, limit \in UploadLimits :
         call' = [fn |-> "sanitize_output", output |-> output, limit |-> limit,
                  result |-> sanitize_output(output, limit)]
    /\ UNCHANGED <<envVars, pc, cur, commands, failure, build, exc, entering,
                   ret, raised, client, engineVars, puts, posts, ops, runs,
                   first_fail, policy_default, called, finalized, state_seen>>

\* ------------------------------- DockerBuildEnvironment.__exit__, except
\* what a scope can be left with: nothing, the command-failure signal, an
\* error of its own, any other exception
ScopeExceptions ==
    {None, Exc("BuildEnvironmentWarning", "command failed"), RunningError}
        \cup BodyExceptions

\* failures stored before the scope is left
StoredFailures ==
    {None, Exc("BuildEnvironmentError", "Build exited due to time out")}

\* the teardown of __exit__ raises a BuildEnvironmentError: the except branch
\* and then BuildEnvironment.__exit__'s handle_exception
ExitExcept ==
    /\ call = NoCall
    /\ \E x \in ScopeExceptions, f \in StoredFailures :
         call' = [fn |-> "__exit__", exc |-> x, err |-> get_client_error,
                  stored |-> f,
                  handed |-> handed_over(x, get_client_error),
                  failure |->
                    handle_exception(f, handed_over(x, get_client_error))]
    /\ UNCHANGED <<envVars, pc, cur, commands, failure, build, exc, entering,
                   ret, raised, client, engineVars, puts, posts, ops, runs,
                   first_fail, policy_default, called, finalized, state_seen>>

\* ----------------------------------- update_build_from_container_state
\* what container_state() can return: None, or the State of a container
\* that is running, was created and never started, or has exited
ContainerStates ==
    {StateNone} \cup
    {[status |-> s, ExitCode |-> x, OOMKilled |-> o, Error |-> err,
      id |-> 1, owner |-> 1] :
        s \in {"running", "created", "exited"},
        x \in {0, 1, DOCKER_TIMEOUT_EXIT_CODE, DOCKER_OOM_EXIT_CODE},
        o \in BOOLEAN, err \in {"", "engine error"}}

\* update_build_from_container_state is called with this failure stored and
\* this answer of container_state()
Reconcile ==
    /\ call = NoCall
    /\ \E f \in StoredFailures \cup {RunningError}, st \in ContainerStates :
         call' = [fn |-> "update_build_from_container_state", stored |-> f,
                  state |-> st,
                  failure |-> update_build_from_container_state(f, st)]
    /\ UNCHANGED <<envVars, pc, cur, commands, failure, build, exc, entering,
                   ret, raised, client, engineVars, puts, posts, ops, runs,
                   first_fail, policy_default, called, finalized, state_seen>>

\* no environment is in use: one function is called, on any arguments
InitFunctions ==
    /\ InitCommon
    /\ script = Free
    /\ kind = [e \in Envs |-> "none"]
    /\ record = [e \in Envs |-> FALSE]
    /\ update_on_success = [e \in Envs |-> FALSE]
    /\ environment = [e \in Envs |-> {}]
    /\ container = NoContainer
    /\ ncreated = 0

NextFunctions ==
    \/ NewDockerBuildEnvironment
    \/ DockerRun
    \/ Sanitize
    \/ ExitExcept
    \/ Reconcile

SpecFunctions == InitFunctions /\ [][NextFunctions]_vars

\* ------------------------------------------------------- concurrent builds
\* two DockerBuildEnvironment instances whose get_container_name() gives the
\* same name: the engine keeps one container per name, so both act on the
\* same entry of the engine
InitConcurrent ==
    /\ InitCommon
    /\ script = Free
    /\ kind = [e \in Envs |-> "DockerBuildEnvironment"]
    /\ record = [e \in Envs |-> TRUE]
    /\ update_on_success = [e \in Envs |-> TRUE]
    /\ environment = [e \in Envs |-> {}]
    /\ container \in {c \in InitialContainers : ~Running(c)}
    /\ ncreated = container.id

\* the entry and exit steps of both instances, in any interleaving; their
\* scope bodies run no command and the containers do not stop by themselves
NextConcurrent ==
    \/ \E e \in Envs :
        \/ EnterState(e)
        \/ EnterRemoveStale(e)
        \/ EnterMakedirs(e)
        \/ EnterCreate(e)
        \/ EnterStart(e)
        \/ LeaveBody(e)
        \/ ExitState(e)
        \/ ExitKill(e)
        \/ ExitRemove(e)
        \/ ExitHandle(e)
        \/ ExitUpdate(e)

SpecConcurrent == InitConcurrent /\ [][NextConcurrent]_vars

\* ------------------------------ the same body in both build environments
\* env 1 is a LocalBuildEnvironment and env 2 a DockerBuildEnvironment; both
\* are constructed with the same options and their scopes run the same body
\* ways a command can end in either class: its process exits with a code
CommonOutcomes == {"ok", "OSError"} \cap Outcomes

\* one statement of the body: a run call and the way its process ends
Statements ==
    {RunCall(r, w, s, v, out, code) :
       r \in {"default", "true", "false"}, w \in BOOLEAN, s \in BOOLEAN,
       v \in BOOLEAN, out \in CommonOutcomes, code \in ExitCodes}

\* a run call that is refused ends the body: it is the last statement the
\* body gets to
Bodies ==
    {b \in UNION {[1..n -> Statements] : n \in 0..MaxContainerCommands} :
        \A i \in 1..(Len(b) - 1) : ~b[i].envOpt}

\* how a body ends after its run calls: normally, with an exception of
\* WARNING_EXCEPTIONS, or with any other exception
BodyEnds == {None} \cup {x \in BodyExceptions : x.msg # "internal b"}

\* the bodies: whether the step is reported, the run calls, and the end
Scripts ==
    [free : {FALSE}, cmds : Bodies, report : BOOLEAN, end : BodyEnds]

InitPair ==
    /\ InitCommon
    /\ kind = [e \in Envs |-> IF e = 1 THEN "LocalBuildEnvironment"
                              ELSE "DockerBuildEnvironment"]
    /\ \E r, u \in BOOLEAN :
         /\ record = [e \in Envs |-> r]
         /\ update_on_success = [e \in Envs |-> u]
    /\ environment = [e \in Envs |-> {}]
    /\ container = NoContainer
    /\ ncreated = container.id
    /\ script \in Scripts

\* the engine answers every call of env 2 and its container runs from
\* client.start to client.kill
EngineWorks ==
    /\ ~entering[2] /\ raised[2] = None
    /\ pc[2] = "start" => container.status = "created"
    /\ pc[2] \in {"open", "x_state", "x_kill"} => Running(container)
    /\ pc[2] = "x_kill" => Running(state_seen[2])
    /\ pc[2] = "x_remove" => container.status = "exited"
    /\ pc[2] \in {"finalize", "update", "closed"} => container = NoContainer

\* the two scopes share nothing, so they are taken one after the other
NextPair ==
    \/ Enter(1)
    \/ Execute(1)
    \/ Finish(1)
    \/ RaiseInBody(1)
    \/ LeaveBody(1)
    \/ CallUpdateBuild(1)
    \/ ExitHandle(1)
    \/ ExitUpdate(1)
    \/ /\ pc[1] = "closed"
       /\ \/ EnterState(2)
          \/ EnterMakedirs(2)
          \/ EnterCreate(2)
          \/ EnterStart(2)
          \/ Execute(2)
          \/ Finish(2)
          \/ RaiseInBody(2)
          \/ LeaveBody(2)
          \/ CallUpdateBuild(2)
          \/ ExitState(2)
          \/ ExitKill(2)
          \/ ExitRemove(2)
          \/ ExitHandle(2)
          \/ ExitUpdate(2)
       /\ EngineWorks'

SpecPair == InitPair /\ [][NextPair]_vars

\* ================================================================= claims
Scoped(e) == kind[e] \in BuildKinds
Docker(e) == kind[e] = "DockerBuildEnvironment"
Successful(e) == successful(build[e], failure[e], commands[e])
Failed(e) == failed(build[e], failure[e], commands[e])

\* the PUTs that carry the terminal state
TerminalPuts(e) ==
    {i \in 1..Len(puts[e]) : puts[e][i].state = BUILD_STATE_FINISHED}

\* the with statement's call of __exit__ has ended
ScopeEnded(e) == pc[e] \in {"closed", "exit_raised"}

OpsOf(e, op, phases) ==
    {k \in 1..Len(ops[e]) : ops[e][k].op = op /\ ops[e][k].phase \in phases}

TimeoutError == Exc("BuildEnvironmentError", "Build exited due to time out")

\* C1: scope exit never propagates an exception: the with statement's call
\* of __exit__ never raises, and when the body raised it returns a
\* suppressing (true) result.
C1_ScopeExitNeverPropagates ==
    \A e \in Envs :
        /\ pc[e] # "exit_raised"
        /\ (pc[e] = "closed" /\ exc[e] # None) => ret[e] = "True"

PutCases(e) ==
    \/ ~done(build'[e])
    \/ failed(build'[e], failure'[e], commands'[e])
    \/ (successful(build'[e], failure'[e], commands'[e]) /\ update_on_success[e])

\* C3 as claimed: every update_build call PUTs exactly when the build is not
\* terminal, or terminal and failed, or terminal, successful and
\* update_on_success.
C3_PutCases ==
    [][\A e \in Envs :
          called'[e] # called[e]
              => (Len(puts'[e]) = Len(puts[e]) + 1 <=> PutCases(e))]_vars

\* C3 as amended: with recording on, update_build PUTs in exactly those
\* cases; with recording off it never PUTs.
C3_PutCasesWhenRecording ==
    [][\A e \in Envs :
          called'[e] # called[e]
              => /\ puts'[e] # puts[e] => Len(puts'[e]) = Len(puts[e]) + 1
                 /\ Len(puts'[e]) = Len(puts[e]) + 1
                      <=> (record[e] /\ PutCases(e))]_vars

C3_Witness ==
    \E e \in Envs :
        /\ pc[e] = "closed" /\ Successful(e) /\ ~update_on_success[e]
        /\ Len(puts[e]) = 1 /\ puts[e][1].state = "building"

\* C4: successful and failed are never both true, both are false while the
\* record is not terminal, and once it is terminal exactly one is true, with
\* successful iff no failure is stored and every listed command exited 0.
C4_VerdictExclusive ==
    \A e \in Envs :
        /\ ~(Successful(e) /\ Failed(e))
        /\ build[e].state # BUILD_STATE_FINISHED => ~Successful(e) /\ ~Failed(e)
        /\ build[e].state = BUILD_STATE_FINISHED =>
             /\ Successful(e) # Failed(e)
             /\ Successful(e) <=>
                  (failure[e] = None
                     /\ \A i \in 1..Len(commands[e]) :
                            commands[e][i].exit_code = <<0>>)

C4_Witness ==
    \E e \in Envs :
        /\ build[e].state = BUILD_STATE_FINISHED /\ Failed(e)
        /\ failure[e] # None
        /\ \A i \in 1..Len(commands[e]) : commands[e][i].exit_code = <<0>>
        /\ commands[e] # <<>>

\* a recording build environment whose commands all ran under the default
\* policy and whose k-th command was the first to exit non-zero
FirstFailure(e) ==
    Scoped(e) /\ record[e] /\ policy_default[e] /\ first_fail[e] # 0

ContainerDeathMessages ==
    {"Build exited due to time out",
     "Build exited due to excessive memory consumption",
     unknown_error("engine error")}

C6_EveryExceptionStored ==
    \A e \in Envs :
        (pc[e] = "update" /\ exc[e] # None) => failure[e] = exc[e]

\* C6 as amended: after handle_exception every intercepted exception other
\* than a BuildEnvironmentWarning is the stored failure; a
\* BuildEnvironmentWarning is never stored.
C6_StoredUnlessWarning ==
    \A e \in Envs :
        (pc[e] = "update" /\ exc[e] # None) =>
            IF IsBuildEnvironmentWarning(exc[e].cls)
            THEN failure[e] # exc[e]
            ELSE failure[e] = exc[e]

C6_Witness ==
    \E e \in Envs :
        /\ pc[e] = "update" /\ exc[e].cls = "Exception" /\ failure[e] = exc[e]
        /\ commands[e] # <<>>

\* the exit-time inspection of a recording environment found its own
\* container exited with the timeout sentinel, and no command had been run
\* (no exec session was asked for either)
TimedOutUnused(e) ==
    /\ Docker(e) /\ record[e] /\ runs[e] = 0 /\ exc[e].msg # "exec"
    /\ state_seen[e].status = "exited" /\ state_seen[e].owner = e
    /\ state_seen[e].ExitCode = DOCKER_TIMEOUT_EXIT_CODE

TimeoutReported(e) ==
    /\ failure[e] = TimeoutError
    /\ Failed(e)
    /\ commands[e] = <<>>
    /\ Cardinality(TerminalPuts(e)) = 1
    /\ \A i \in TerminalPuts(e) : puts[e][i].error = TimeoutError.msg

FailedProvisioning(e) ==
    /\ pc[e] = "enter_raised"
    /\ \/ raised[e].cls = "OSError"
       \/ entering[e] /\ OpsOf(e, "create", {"enter"}) # {}

\* C8: a failure in entry step 3 or 4 runs the whole teardown and
\* finalization before the error is re-raised, and leaves no container
\* created by this environment running.
C8_FailedEntryTearsDown ==
    \A e \in Envs :
        FailedProvisioning(e) =>
            /\ finalized[e]
            /\ OpsOf(e, "kill", {"exit"}) # {}
            /\ OpsOf(e, "remove", {"exit"}) # {}
            /\ raised[e] = exc[e]
            /\ ~(Running(container) /\ container.owner = e)

\* C9: when the engine reports Running=true at entry, entry raises the
\* "currently running" error and create_container is never called.
C9_RunningRaisesHardError ==
    \A e \in Envs :
        (entering[e] /\ exc[e] = RunningError) =>
            /\ OpsOf(e, "create", {"enter"}) = {}
            /\ pc[e] = "enter_raised" => raised[e] = RunningError

\* C10 as claimed: within one scope kill and remove are each attempted at
\* most once on a container, kill before remove, and "not found" is absorbed.
C10_KillRemoveOnce ==
    \A e \in Envs :
        /\ raised[e].cls # "NotFound"
        /\ \A i \in 1..ncreated :
             LET kills == {k \in OpsOf(e, "kill", {"enter", "exit"}) :
                             ops[e][k].id = i}
                 removes == {k \in OpsOf(e, "remove", {"enter", "exit"}) :
                               ops[e][k].id = i}
             IN /\ Cardinality(kills) <= 1
                /\ Cardinality(removes) <= 1
                /\ \A k \in kills, r \in removes : k < r

\* C10 as amended: the teardown of a scope attempts kill at most once and
\* remove at most once, kill before remove, and "not found" is absorbed; the
\* removal of a stale container at entry is a further remove attempt.
C10_TeardownOnce ==
    \A e \in Envs :
        /\ raised[e].cls # "NotFound"
        /\ Cardinality(OpsOf(e, "kill", {"exit"})) <= 1
        /\ Cardinality(OpsOf(e, "remove", {"exit"})) <= 1
        /\ OpsOf(e, "kill", {"enter"}) = {}
        /\ \A r \in OpsOf(e, "remove", {"exit"}) :
             \E k \in OpsOf(e, "kill", {"exit"}) : k < r

C10_Witness ==
    \E e \in Envs :
        /\ pc[e] = "enter_raised" /\ finalized[e]
        /\ \E k \in OpsOf(e, "kill", {"exit"}) : ops[e][k].id = 0
        /\ OpsOf(e, "remove", {"exit"}) # {}

\* the scope was left by an exception that is not a structured
\* build-environment error, and the record was written
UnclassifiedFailure(e) ==
    /\ Scoped(e) /\ record[e] /\ finalized[e]
    /\ exc[e] # None /\ ~IsBuildEnvironmentException(exc[e].cls)

\* C11: when the stored failure is an unclassified exception, the error text
\* written to the build record and pushed is the generic "see build id"
\* message, whatever the text of the exception: the text never appears.
C11_GenericErrorText ==
    \A e \in Envs :
        /\ UnclassifiedFailure(e) =>
             /\ build[e].error = GENERIC_WITH_BUILD_ID
             /\ failure[e] = Exc("BuildEnvironmentError", GENERIC_WITH_BUILD_ID)
             /\ \A i \in TerminalPuts(e) :
                    puts[e][i].error = GENERIC_WITH_BUILD_ID
        /\ \A i \in 1..Len(puts[e]) :
             \A x \in BodyExceptions :
                 ~IsBuildEnvironmentException(x.cls) => puts[e][i].error # x.msg

C11_Witness ==
    \E e \in Envs :
        /\ UnclassifiedFailure(e) /\ pc[e] = "closed"
        /\ exc[e] = Exc("Exception", "internal b")
        /\ \E i \in TerminalPuts(e) : puts[e][i].error = GENERIC_WITH_BUILD_ID

\* the image the stated precedence selects: testing flag, then the build
\* configuration, then the project override, then the default
ClaimedImage(c) ==
    IF c.testing THEN "readthedocs/build:testing"
    ELSE IF c.config_image # "" THEN c.config_image
    ELSE IF c.project_image # "" THEN c.project_image
    ELSE DOCKER_IMAGE

\* C12: for every combination of testing flag, configuration override and
\* project override, the image used is the highest-ranked present one in the
\* order testing flag > configuration > project > default.
C12_ImagePrecedence ==
    call.fn = "__init__" => call.image = ClaimedImage(call)

\* run_command_class goes from build_cmd.run() to its end for environment e
Finishing(e) == cur[e] # NoCmd /\ cur'[e] = NoCmd

\* the command run_command_class has just appended to the list
Appended(e) == commands'[e][Len(commands'[e])]

\* C13 as claimed: the exit code is unset until the execution completes and,
\* once set, no later operation on the command changes it, save included.
C13_ExitCodeImmutable ==
    [][\A e \in Envs :
          /\ (cur[e] = NoCmd /\ cur'[e] # NoCmd) =>
                (cur[e].exit_code = <<>> /\ cur'[e].exit_code # <<>>)
          /\ (Finishing(e) /\ Len(commands'[e]) = Len(commands[e]) + 1) =>
                Appended(e).exit_code = cur[e].exit_code]_vars

\* C13 as amended: the exit code is unset until the execution completes;
\* afterwards only save changes it, to 0, and only for a command marked
\* record_as_success (save is called in build environments only).
C13_ExitCodeSetOnceOrZeroed ==
    [][\A e \in Envs :
          /\ (cur[e] = NoCmd /\ cur'[e] # NoCmd) =>
                (cur[e].exit_code = <<>> /\ cur'[e].exit_code # <<>>)
          /\ (Finishing(e) /\ Len(commands'[e]) = Len(commands[e]) + 1) =>
                Appended(e).exit_code =
                    IF cur[e].record_as_success /\ Scoped(e)
                    THEN <<0>> ELSE cur[e].exit_code]_vars

C13_Witness ==
    \E e \in Envs :
        /\ Scoped(e) /\ runs[e] = 1 /\ first_fail[e] = 1
        /\ Len(commands[e]) = 1
        /\ commands[e][1].record_as_success /\ commands[e][1].exit_code = <<0>>

\* a build environment ends the run of a command marked record_as_success
\* that exited non-zero
ForcedSuccess(e) ==
    /\ Scoped(e) /\ Finishing(e)
    /\ cur[e].record_as_success /\ cmd_failed(cur[e])

\* exit code 0 is POSTed, the command is listed and run returns
PersistedAsSuccess(e) ==
    /\ posts'[e] = Append(posts[e], 0)
    /\ Len(commands'[e]) = Len(commands[e]) + 1
    /\ pc'[e] = "open" /\ exc'[e] = exc[e] /\ raised'[e] = raised[e]

C15_UnrecordedFailureNotFatal ==
    [][\A e \in Envs :
          (Finishing(e) /\ ~cur[e].record /\ cmd_failed(cur[e])) =>
              /\ pc'[e] = "open" /\ exc'[e] = exc[e] /\ raised'[e] = raised[e]
              /\ commands'[e] = commands[e]]_vars

\* the list and the POSTed exit codes agree, entry by entry
ListMirrorsPosts(e) ==
    /\ Len(commands[e]) = Len(posts[e])
    /\ \A i \in 1..Len(commands[e]) : commands[e][i].exit_code = <<posts[e][i]>>

Refusals ==
    {Exc("BuildEnvironmentError", "environment can't be passed in via commands."),
     Exc("BuildEnvironmentError", "'PATH' can't be set. Use bin_path")}

\* a step in which a run call of environment e is refused
Refused(e) ==
    \/ exc'[e] \in Refusals /\ exc[e] \notin Refusals
    \/ raised'[e] \in Refusals /\ raised[e] \notin Refusals

\* C17: a run call that passes an environment option, or whose shared
\* environment names PATH, fails with a BuildEnvironmentError before any
\* command is executed and leaves the command list and the tracking API
\* untouched; an environment sharing PATH never executes a command.
C17_EnvironmentRefused ==
    [][\A e \in Envs :
          /\ "PATH" \in environment[e] =>
                /\ runs'[e] = 0 /\ cur'[e] = NoCmd
                /\ commands'[e] = <<>> /\ posts'[e] = <<>>
          /\ Refused(e) =>
                /\ runs'[e] = runs[e] /\ cur[e] = NoCmd /\ cur'[e] = NoCmd
                /\ commands'[e] = commands[e] /\ posts'[e] = posts[e]
                /\ puts'[e] = puts[e]]_vars

C17_Witness ==
    \E e \in Envs :
        /\ "PATH" \in environment[e] /\ pc[e] = "closed"
        /\ exc[e] = Exc("BuildEnvironmentError", "'PATH' can't be set. Use bin_path")
        /\ runs[e] = 0 /\ commands[e] = <<>> /\ posts[e] = <<>>

\* C18: executing a command never propagates an execution failure: no
\* exception of the exec session reaches the scope or the caller.
C18_ExecutionNeverPropagates ==
    \A e \in Envs : exc[e].msg # "exec" /\ raised[e].msg # "exec"

\* the notice was appended to the output
Noticed(c) ==
    /\ Len(c.output) = Len(c.lines) + 2
    /\ c.output[Len(c.output)] = OOM_NOTICE
    /\ SubSeq(c.output, 1, Len(c.lines)) = c.lines

\* C19: for a container command the memory-exhaustion notice is appended to
\* the output iff the reported exit code is the OOM sentinel, or it is 1 and
\* 'Killed' occurs in the last 15 lines; the stored exit code stays the
\* reported one, and without the notice the output is unchanged.
C19_OomNotice ==
    call.fn = "DockerBuildCommand.run" =>
        /\ Noticed(call) <=>
              \/ call.reported = DOCKER_OOM_EXIT_CODE
              \/ /\ call.reported = 1
                 /\ \E i \in 1..Len(call.lines) :
                        call.lines[i] = "Killed" /\ i > Len(call.lines) - 15
        /\ ~Noticed(call) => call.output = call.lines
        /\ call.exit_code = call.reported

C19_Witness ==
    /\ call.fn = "DockerBuildCommand.run" /\ call.reported = 1
    /\ Len(call.lines) = 17 /\ call.lines[3] = "Killed"
    /\ Noticed(call) /\ call.exit_code = 1

RECURSIVE Digits(_)
Digits(n) == IF n < 10 THEN 1 ELSE 1 + Digits(n \div 10)

\* characters of the truncation notice naming a budget of n bytes:
\* '.. (truncated) ...\n' and 'Output is too big. Truncated at n bytes.\n\n\n'
NoticeLen(n) == 19 + 32 + Digits(n) + 10

\* characters of a result of sanitize_output
Size(r) == (IF r.notice = <<>> THEN 0 ELSE NoticeLen(r.notice[1])) + Len(r.text)

\* the length ceiling: the upload limit minus the reserved margin
Ceiling(c) == c.limit - threshold

\* C20 as claimed: for a raw output longer than the ceiling the result is at
\* most the ceiling in size and begins with the notice naming the budget;
\* an output within the ceiling is returned without a notice.
C20_TruncatedToCeiling ==
    call.fn = "sanitize_output" =>
        IF Len(call.output) > Ceiling(call)
        THEN /\ Size(call.result) <= Ceiling(call)
             /\ call.result.notice = <<Ceiling(call)>>
        ELSE call.result.notice = <<>>

\* C20 as amended: for a raw output longer than the ceiling the result
\* begins with the notice naming the budget, followed by at most the last
\* ceiling characters of the sanitized text, so its size is at most the
\* ceiling plus the length of the notice; an output within the ceiling is
\* returned sanitized and without a notice.
C20_TruncatedToCeilingPlusNotice ==
    call.fn = "sanitize_output" =>
        LET r == call.result
            clean == without_nul(decode(call.output))
        IN IF Len(call.output) > Ceiling(call)
           THEN /\ r.notice = <<Ceiling(call)>>
                /\ Len(r.text) <= Ceiling(call)
                /\ Size(r) <= Ceiling(call) + NoticeLen(Ceiling(call))
                /\ r.text = SubSeq(clean, Len(clean) - Len(r.text) + 1, Len(clean))
           ELSE r.notice = <<>> /\ r.text = clean

C20_Witness ==
    /\ call.fn = "sanitize_output"
    /\ Len(call.output) = 5 /\ Ceiling(call) = 3
    /\ call.result.notice = <<3>> /\ Len(call.result.text) = 3
    /\ Size(call.result) > Ceiling(call)

\* entry of environment e met a running container under its name
ObservedRunning(e) == entering[e] /\ exc[e] = RunningError

\* C21: for two DockerBuildEnvironment instances with the same container
\* name, in every interleaving of their entry and exit steps, at most one
\* container with that name runs and the two are never both inside their
\* scopes, and an instance that observes a running container with its name
\* fails entry with the "currently running" error.
C21_OneRunningContainer ==
    /\ \A a, b \in Envs : (pc[a] = "open" /\ pc[b] = "open") => a = b
    /\ Running(container) => container.id = ncreated
    /\ \A e \in Envs :
         (ObservedRunning(e) /\ pc[e] = "enter_raised") =>
             raised[e] = RunningError

\* C22: every DockerBuildEnvironment scope exit reaches the finalize-and-
\* report step of BuildEnvironment.__exit__, whichever engine call of the
\* teardown (state inspection, kill, remove) fails and with whichever error:
\* no scope exit ends without having finalized.
C22_TeardownReachesFinalize ==
    \A e \in Envs :
        (Docker(e) /\ ~entering[e] /\ pc[e] \in {"closed", "exit_raised"})
            => finalized[e]

WritesFailure(e) ==
    \/ pc[e] = "x_state" /\ pc'[e] = "x_kill"
    \/ pc[e] = "finalize" /\ pc'[e] = "update"

\* the death of its container that __exit__ saw for e ("": none): the state
\* was known and not running, with the sentinel, the flag or an error text
DiedOf(e) ==
    LET st == state_seen[e]
    IN IF st.status \in {"unseen", "None", "running"} THEN ""
       ELSE IF st.ExitCode = DOCKER_TIMEOUT_EXIT_CODE
       THEN "Build exited due to time out"
       ELSE IF st.OOMKilled
       THEN "Build exited due to excessive memory consumption"
       ELSE IF st.Error # ""
       THEN "Build exited due to unknown error: " \o st.Error
       ELSE ""

\* the exception handed to the interception is one it stores
Stored(x) == x # None /\ x.cls # "BuildEnvironmentWarning"

C25_ReconciliationPrecedence ==
    call.fn = "update_build_from_container_state" =>
        LET st == call.state
        IN IF st.status \in {"None", "running"}
           THEN call.failure = call.stored
           ELSE IF st.ExitCode = 42
           THEN call.failure =
                  Exc("BuildEnvironmentError", "Build exited due to time out")
           ELSE IF st.OOMKilled
           THEN call.failure =
                  Exc("BuildEnvironmentError",
                      "Build exited due to excessive memory consumption")
           ELSE IF st.Error # ""
           THEN call.failure =
                  Exc("BuildEnvironmentError",
                      "Build exited due to unknown error: " \o st.Error)
           ELSE call.failure = call.stored

C25_Witness ==
    /\ call.fn = "update_build_from_container_state"
    /\ call.state.status = "exited" /\ call.state.ExitCode = 137
    /\ call.state.OOMKilled /\ call.state.Error = "engine error"
    /\ call.stored = RunningError
    /\ call.failure.msg = "Build exited due to excessive memory consumption"

\* entry of e goes from one of its steps to the next
EntryStep(e, from) == pc[e] = from /\ pc'[e] # from

\* a container with the name exists and is not running
Stale(c) == c.status # "absent" /\ ~Running(c)

\* C26: when a container with the derived name exists but is not running at
\* scope entry, its removal is attempted before create_container is called,
\* and an engine or connection error during the check or the removal is
\* swallowed, so that entry goes on to provisioning (the checkout path, then
\* create_container).
C26_StaleRemovedBeforeCreate ==
    [][\A e \in Envs :
          /\ (Docker(e) /\ EntryStep(e, "new") /\ client'[e] /\ Stale(container)) =>
                \/ pc'[e] = "e_stale"
                \/ pc'[e] = "mkdir" /\ ops'[e] = ops[e]
                \/ pc'[e] = "enter_raised" /\ raised'[e] = Exc("ReadTimeout", "inspect")
          /\ EntryStep(e, "e_stale") =>
                /\ OpsOf(e, "create", {"enter"}) = {}
                /\ ops'[e] = Append(ops[e], [op |-> "remove", id |-> container.id,
                                             phase |-> "enter"])
                /\ \/ pc'[e] = "mkdir"
                   \/ pc'[e] = "enter_raised"
                        /\ raised'[e] = Exc("ReadTimeout", "remove")
          /\ EntryStep(e, "mkdir") =>
                pc'[e] = "create" \/ raised'[e].cls = "OSError"
          /\ \A c \in OpsOf(e, "create", {"enter"})', r \in OpsOf(e, "remove", {"enter"})' :
                r < c]_vars

\* the removal of a stale container failed, and create_container was called
C26_Witness ==
    \E e \in Envs :
        /\ Len(ops[e]) >= 2
        /\ ops[e][1] = [op |-> "remove", id |-> 1, phase |-> "enter"]
        /\ ops[e][2].op = "create" /\ ops[e][2].id = 1
        /\ container.id = 1 /\ Stale(container)

\* the build record as it was handed to the environment
Untouched(b) ==
    /\ b.success = TRUE /\ b.exit_code = <<>> /\ b.error = ""
    /\ b.length = <<>>

\* C27: when the recording flag is off, update_build has no effect: it
\* changes no field of the build record (state, success, exit code, error,
\* length) and issues no PUT, also when the build failed. The only write to
\* the record is then the terminal state that DockerBuildEnvironment.__enter__
\* sets by itself when it meets a running container.
C27_NoRecordNoUpdate ==
    \A e \in Envs :
        (Scoped(e) /\ ~record[e]) =>
            /\ puts[e] = <<>>
            /\ Untouched(build[e])
            /\ build[e].state \in {"triggered", BUILD_STATE_FINISHED}
            /\ build[e].state = BUILD_STATE_FINISHED => ObservedRunning(e)
            /\ (finalized[e] /\ Stored(exc[e])) => failure[e] = exc[e]

\* finalization of a failed build whose commands were persisted
C27_Witness ==
    \E e \in Envs :
        /\ Scoped(e) /\ ~record[e] /\ pc[e] = "closed" /\ called[e] = "finished"
        /\ exc[e] = Exc("Exception", "internal a") /\ failure[e] = exc[e]
        /\ Len(commands[e]) = 1 /\ commands[e][1].exit_code = <<1>>
        /\ build[e].state = "triggered" /\ Untouched(build[e]) /\ puts[e] = <<>>

\* the scope of e was left by the command-failure signal, and the teardown
\* found the container exited with the timeout sentinel or the OOM flag
KilledUnderCommand(e) ==
    /\ Docker(e) /\ exc[e].cls = "BuildEnvironmentWarning"
    /\ state_seen[e].status = "exited"
    /\ state_seen[e].ExitCode = 42 \/ state_seen[e].OOMKilled

\* the message of what the container died of
DeathMessage(st) ==
    IF st.ExitCode = 42 THEN "Build exited due to time out"
    ELSE "Build exited due to excessive memory consumption"

\* C28: when the scope is exited by the command-failure signal and the
\* container is found exited with the timeout sentinel or the OOM flag, the
\* failure stored after scope exit and the error text pushed to the tracking
\* API are the container-death message, not the command failure.
C28_ContainerDeathReported ==
    \A e \in Envs :
        KilledUnderCommand(e) =>
            /\ failure[e] =
                 Exc("BuildEnvironmentError", DeathMessage(state_seen[e]))
            /\ \A i \in TerminalPuts(e) :
                 puts[e][i].error = DeathMessage(state_seen[e])
            /\ (finalized[e] /\ record[e]) =>
                 /\ build[e].error = DeathMessage(state_seen[e])
                 /\ Cardinality(TerminalPuts(e)) = 1

C28_Witness ==
    \E e \in Envs :
        /\ KilledUnderCommand(e) /\ pc[e] = "closed"
        /\ state_seen[e].ExitCode = 137 /\ state_seen[e].OOMKilled
        /\ failure[e].msg = "Build exited due to excessive memory consumption"
        /\ \E i \in TerminalPuts(e) : puts[e][i].error = failure[e].msg

\* entry of e failed on a collision: the name was taken by a running
\* container, or create_container was refused
FailedOnCollision(e) ==
    /\ entering[e]
    /\ exc[e] \in {RunningError,
                   Exc("BuildEnvironmentCreationFailed",
                       "Build environment creation failed")}

\* environment e makes an engine call in this step
Calls(e) == ops'[e] # ops[e]

\* C29: a DockerBuildEnvironment never kills or removes a running container
\* that it did not create itself: when its entry fails, because a container
\* with its name is already running or because creation failed on a name
\* conflict, its teardown leaves the other environment's running container
\* untouched.
C29_ForeignContainerUntouched ==
    [][\A e \in Envs :
          (/\ FailedOnCollision(e)
           /\ Calls(e) /\ Running(container) /\ container.owner # e)
              => container' = container]_vars

\* C30: whenever a build record is finalized as failed (terminal state,
\* success flag false) and an exit code is written to it, that exit code is
\* not 0, for every combination of exit codes of the listed commands (the
\* spawn-failure code -1 included) and stored failure.
C30_FailedExitCodeNonZero ==
    \A e \in Envs :
        (/\ build[e].state = BUILD_STATE_FINISHED /\ ~build[e].success
         /\ build[e].exit_code # <<>>)
            => build[e].exit_code[1] # 0

\* C31: when the container stays running for the whole scope and no engine
\* call fails, a DockerBuildEnvironment and a LocalBuildEnvironment given
\* the same command outcomes and options end with the same command list,
\* the same stored failure, the same success flag, exit code and error text
\* in the record, and the same number of PUTs.
BothClosed ==
    /\ ~script.free
    /\ kind[1] = "LocalBuildEnvironment" /\ pc[1] = "closed"
    /\ kind[2] = "DockerBuildEnvironment" /\ pc[2] = "closed"
    /\ Running(state_seen[2])

C31_DockerAsLocal ==
    BothClosed =>
        /\ commands[1] = commands[2]
        /\ failure[1] = failure[2]
        /\ build[1].success = build[2].success
        /\ build[1].exit_code = build[2].exit_code
        /\ build[1].error = build[2].error
        /\ Len(puts[1]) = Len(puts[2])

\* both scopes ran a recorded command that failed, and both records are PUT
C31_Witness ==
    /\ BothClosed
    /\ Len(commands[2]) = 1 /\ cmd_failed(commands[2][1])
    /\ Failed(1) /\ Failed(2)
    /\ Len(puts[2]) = 1
====
